---------------------------- MODULE Spec2Model ----------------------------
(***************************************************************************)
(* Debounce / dispatch coordinator of the Instagram DM agent.              *)
(*                                                                         *)
(*   services/messageStore.ts   storeMessage, scheduleProcessing,          *)
(*                              claimPendingMessages, updateMessageStatus, *)
(*                              markProcessedAndCheckPending               *)
(*   functions/processMessage.ts  the Cloud Task callback (one "pass")     *)
(*   functions/webhookHandler.ts  the webhook's store + schedule           *)
(*   flows/dmAgent.ts             dmAgentFlow (catches its own errors)     *)
(*                                                                         *)
(* The Firestore collection conversations/{threadId}/messages is the pair  *)
(* (status, createdAt); the Cloud Tasks queue is the sequence queue of     *)
(* named tasks.  A task keeps its name from createTask until its handler   *)
(* answers 2xx; a 5xx answer or a handler timeout leaves it queued for a   *)
(* retry, and the queue may deliver a task more than once.                 *)
(***************************************************************************)
EXTENDS Integers, Sequences, FiniteSets, TLC

(***************************************************************************)
(* Bounds of the model.                                                    *)
(***************************************************************************)
MaxClock == 1
MaxInflight == 1
MaxNow == 3

(***************************************************************************)
(* Program constants.                                                      *)
(***************************************************************************)
MIN_DELAY_SECONDS == 5
MAX_DELAY_SECONDS == 15

PENDING == "pending"
PROCESSING == "processing"
PROCESSED == "processed"
FAILED == "failed"
ABSENT == "absent"

MessageStatus == {PENDING, PROCESSING, PROCESSED, FAILED}

(***************************************************************************)
(* Conversations (threadId = sender id), message documents and the         *)
(* concurrent function instances of processMessage.                        *)
(***************************************************************************)
T1 == <<"1", "7">>
T2 == <<"1", "8">>
Threads == {T1, T2}
MsgIds == [t \in Threads |-> IF t = T1 THEN {1, 2} ELSE {1}]
Msgs == {m \in Threads \X {1, 2} : m[2] \in MsgIds[m[1]]}
Passes == {1, 2}

VARIABLES
    senders,      \* the conversations whose users write in this behaviour
    clock,        \* Date.now(), in the units of createdAt
    status,       \* status field of each message document (ABSENT: no document)
    createdAt,    \* createdAt field of each message document
    inflight,     \* per thread: webhook handlers between storeMessage and scheduleProcessing
    queue,        \* the Cloud Tasks queue: sequence of [name, threadId, st]
    pc,           \* position of each processMessage instance
    pthread,      \* payload.threadId of each instance
    pjob,         \* whether the instance's task is still the queued one
    claimed,      \* claimedMessages of each instance, until its release commits
    agentOk,      \* result.success of the instance's dmAgentFlow call
    newPending,   \* result of the instance's markProcessedAndCheckPending
    agentDone,    \* messages some successfully completed agent invocation covered
    lastAborted,  \* per thread: the claim reset by the latest abort, until the next claim
    probe         \* inputs and outputs of the pure functions under test

vars == <<senders, clock, status, createdAt, inflight, queue, pc, pthread,
          pjob, claimed, agentOk, newPending, agentDone, lastAborted, probe>>

storeVars == <<status, createdAt>>
passVars == <<pc, pthread, pjob, claimed, agentOk, newPending>>

(***************************************************************************)
(* scheduleProcessing: the task name.                                      *)
(***************************************************************************)
Lower == {"a","b","c","d","e","f","g","h","i","j","k","l","m",
          "n","o","p","q","r","s","t","u","v","w","x","y","z"}
Upper == {"A","B","C","D","E","F","G","H","I","J","K","L","M",
          "N","O","P","Q","R","S","T","U","V","W","X","Y","Z"}
Digit == {"0","1","2","3","4","5","6","7","8","9"}
NameChars == Lower \cup Upper \cup Digit \cup {"-", "_"}

\* threadId.replace(/[^a-zA-Z0-9-_]/g, "_")
Sanitize(threadId) ==
    [i \in DOMAIN threadId |->
        IF threadId[i] \in NameChars THEN threadId[i] ELSE "_"]

\* `${parent}/tasks/process-${sanitized}`; now is the clock the call could read
TaskName(threadId, now) == <<"process-">> \o Sanitize(threadId)

IsCloudTasksMockMode == FALSE

(***************************************************************************)
(* The queue behind client.createTask.                                     *)
(***************************************************************************)
QueueHas(q, name) == \E i \in DOMAIN q : q[i].name = name

\* createTask that never reports an existing name
CreateTaskCodeNoDedup(q, name, fault) ==
    IF fault THEN "UNAVAILABLE" ELSE "OK"

\* the gRPC outcome of createTask; fault: the queue fails the call
CreateTaskCode(q, name, fault) ==
    IF fault THEN "UNAVAILABLE"
    ELSE IF QueueHas(q, name) THEN "ALREADY_EXISTS"
    ELSE "OK"

CreateTask(q, name, threadId, fault) ==
    IF CreateTaskCode(q, name, fault) = "OK"
    THEN Append(q, [name |-> name, threadId |-> threadId, st |-> "waiting"])
    ELSE q

\* a catch that rethrows every createTask error
ScheduleOutcomeStrict(code) ==
    IF code = "OK" THEN "returned" ELSE "thrown"

\* try/catch of scheduleProcessing: what the caller sees
ScheduleOutcome(code) ==
    IF code \in {"OK", "ALREADY_EXISTS"} THEN "returned" ELSE "thrown"

\* scheduleProcessing(threadId, messageId) on queue q
ScheduleProcessing(q, threadId, now, fault) ==
    IF IsCloudTasksMockMode THEN q
    ELSE CreateTask(q, TaskName(threadId, now), threadId, fault)

RECURSIVE RemoveTask(_, _)
RemoveTask(q, name) ==
    IF q = << >> THEN << >>
    ELSE IF Head(q).name = name THEN Tail(q)
    ELSE <<Head(q)>> \o RemoveTask(Tail(q), name)

SetTaskState(q, name, st) ==
    [i \in DOMAIN q |-> IF q[i].name = name THEN [q[i] EXCEPT !.st = st] ELSE q[i]]

\* an answer that the queue does not take as success
TaskKeptQueued(q, p) == q

\* the handler answered 2xx: the task is done and leaves the queue
TaskSucceeded(q, p) ==
    IF pjob[p] THEN RemoveTask(q, TaskName(pthread[p], 0)) ELSE q

\* the handler answered 5xx or timed out: the task waits for its retry
TaskFailed(q, p) ==
    IF pjob[p] /\ QueueHas(q, TaskName(pthread[p], 0))
    THEN SetTaskState(q, TaskName(pthread[p], 0), "waiting") ELSE q

JobsOf(t) == {i \in DOMAIN queue : queue[i].threadId = t}
WaitingJobsOf(t) == {i \in JobsOf(t) : queue[i].st = "waiting"}
RunningJobsOf(t) == {i \in JobsOf(t) : queue[i].st = "running"}

(***************************************************************************)
(* Firestore queries on one conversation.                                  *)
(***************************************************************************)
MsgsOf(t) == {m \in Msgs : m[1] = t}
WithStatus(t, s) == {m \in MsgsOf(t) : status[m] = s}

\* orderBy("createdAt", "asc"); equal createdAt falls back to the document id
Before(a, b) ==
    \/ createdAt[a] < createdAt[b]
    \/ createdAt[a] = createdAt[b] /\ a[2] < b[2]

SortByCreatedAt(S) ==
    CHOOSE s \in [1..Cardinality(S) -> S] :
        \A i, j \in 1..Cardinality(S) : i < j => Before(s[i], s[j])

\* where("status","==",PENDING).orderBy("createdAt","asc")
PendingMessages(t) == SortByCreatedAt(WithStatus(t, PENDING))

Range(s) == {s[i] : i \in DOMAIN s}

(***************************************************************************)
(* Initial state: empty store, empty queue, no function instance running.  *)
(***************************************************************************)
NoProbe == [op |-> "none"]

MainInit ==
    /\ clock = 0
    /\ status = [m \in Msgs |-> ABSENT]
    /\ createdAt = [m \in Msgs |-> 0]
    /\ inflight = [t \in Threads |-> 0]
    /\ queue = << >>
    /\ pc = [p \in Passes |-> "idle"]
    /\ pthread = [p \in Passes |-> T1]
    /\ pjob = [p \in Passes |-> FALSE]
    /\ claimed = [p \in Passes |-> << >>]
    /\ agentOk = [p \in Passes |-> TRUE]
    /\ newPending = [p \in Passes |-> << >>]
    /\ agentDone = {}
    /\ lastAborted = [t \in Threads |-> << >>]

Init == MainInit /\ senders = {T1} /\ probe = NoProbe

(***************************************************************************)
(* webhookHandler.ts: storeMessage(message, threadId) of the handler's     *)
(* try block.  docRef.set() writes the whole document, whether or not one  *)
(* with this message id exists.                                            *)
(***************************************************************************)
StoredStatus(old) == PENDING

\* now: Date.now() of this call, not earlier than the clock read before it
StoreMessage(t, id, now) ==
    /\ t \in senders
    /\ inflight[t] < MaxInflight
    /\ now \in clock..MaxClock
    /\ clock' = now
    /\ status' = [status EXCEPT ![<<t, id>>] = StoredStatus(status[<<t, id>>])]
    /\ createdAt' = [createdAt EXCEPT ![<<t, id>>] = now]
    /\ inflight' = [inflight EXCEPT ![t] = @ + 1]
    /\ UNCHANGED <<senders, queue, passVars, agentDone, lastAborted, probe>>

(***************************************************************************)
(* webhookHandler.ts: scheduleProcessing(threadId, message.id) after the   *)
(* store; its error is caught and logged by the handler.                   *)
(***************************************************************************)
WebhookSchedule(t, fault) ==
    /\ inflight[t] > 0
    /\ inflight' = [inflight EXCEPT ![t] = @ - 1]
    /\ queue' = ScheduleProcessing(queue, t, clock, fault)
    /\ UNCHANGED <<senders, clock, storeVars, passVars, agentDone, lastAborted, probe>>

(***************************************************************************)
(* The queue dispatches a task (again, when it is already running: the     *)
(* queue delivers at least once) to a free processMessage instance.        *)
(***************************************************************************)
Fire(p, i) ==
    /\ pc[p] = "idle"
    /\ \A q \in Passes : q < p => pc[q] # "idle"
    /\ i \in DOMAIN queue
    /\ queue' = [queue EXCEPT ![i].st = "running"]
    /\ pc' = [pc EXCEPT ![p] = "start"]
    /\ pthread' = [pthread EXCEPT ![p] = queue[i].threadId]
    /\ pjob' = [pjob EXCEPT ![p] = TRUE]
    /\ claimed' = [claimed EXCEPT ![p] = << >>]
    /\ agentOk' = [agentOk EXCEPT ![p] = TRUE]
    /\ newPending' = [newPending EXCEPT ![p] = << >>]
    /\ UNCHANGED <<senders, clock, storeVars, inflight, agentDone, lastAborted, probe>>

\* the instance has answered (or was killed): its slot is free again; a 2xx
\* answer also ends the task for every other instance still running it
EndPass(p, success) ==
    /\ pc' = [pc EXCEPT ![p] = "idle"]
    /\ pthread' = [pthread EXCEPT ![p] = T1]
    /\ pjob' = [q \in Passes |->
                  IF q = p THEN FALSE
                  ELSE IF success /\ pjob[p] /\ pthread[q] = pthread[p] THEN FALSE
                  ELSE pjob[q]]
    /\ claimed' = [claimed EXCEPT ![p] = << >>]
    /\ agentOk' = [agentOk EXCEPT ![p] = TRUE]
    /\ newPending' = [newPending EXCEPT ![p] = << >>]

(***************************************************************************)
(* messageStore.ts: claimPendingMessages, one transaction.                 *)
(***************************************************************************)
\* a claim write that marks the pending messages whatever the claim returns
ClaimWriteAlways(t) ==
    [m \in Msgs |-> IF m \in WithStatus(t, PENDING) THEN PROCESSING ELSE status[m]]

\* a claim that takes the oldest pending message only
ClaimOldestOnly(t) ==
    IF WithStatus(t, PROCESSING) # {} \/ PendingMessages(t) = << >> THEN << >>
    ELSE <<PendingMessages(t)[1]>>

\* a claim that is refused while a message of any conversation is in
\* processing
ClaimGlobalLock(t) ==
    IF \E u \in Threads : WithStatus(u, PROCESSING) # {} THEN << >>
    ELSE PendingMessages(t)

\* what the transaction returns
ClaimResult(t) ==
    IF WithStatus(t, PROCESSING) # {} THEN << >>
    ELSE PendingMessages(t)

\* what the transaction writes
ClaimWrite(t) ==
    [m \in Msgs |-> IF m \in Range(ClaimResult(t)) THEN PROCESSING ELSE status[m]]

\* processMessage.ts 159-168: the claim; an empty claim is answered 200 at once
Claim(p) ==
    /\ pc[p] = "start"
    /\ status' = ClaimWrite(pthread[p])
    /\ IF ClaimResult(pthread[p]) = << >>
       THEN /\ EndPass(p, TRUE)
            /\ queue' = TaskSucceeded(queue, p)
       ELSE /\ pc' = [pc EXCEPT ![p] = "claimed"]
            /\ claimed' = [claimed EXCEPT ![p] = ClaimResult(pthread[p])]
            /\ UNCHANGED <<queue, pthread, pjob, agentOk, newPending>>
    /\ lastAborted' = [lastAborted EXCEPT ![pthread[p]] = << >>]
    /\ UNCHANGED <<senders, clock, createdAt, inflight, agentDone, probe>>

\* the claim transaction throws: claimedMessages is still empty, the catch
\* block resets nothing and answers 500
ClaimFails(p) ==
    /\ pc[p] = "start"
    /\ EndPass(p, FALSE)
    /\ queue' = TaskFailed(queue, p)
    /\ UNCHANGED <<senders, clock, storeVars, inflight, agentDone, lastAborted, probe>>

(***************************************************************************)
(* processMessage.ts 170-193: getConversationHistory and getUserProfile,   *)
(* either of which may throw into the catch block.                         *)
(***************************************************************************)
BuildInput(p, ok) ==
    /\ pc[p] = "claimed"
    /\ pc' = [pc EXCEPT ![p] = IF ok THEN "ready" ELSE "catch"]
    /\ UNCHANGED <<senders, clock, storeVars, inflight, queue, pthread, pjob,
                   claimed, agentOk, newPending, agentDone, lastAborted, probe>>

(***************************************************************************)
(* dmAgent.ts: dmAgentFlow.  The flow body is one try/catch: a failing     *)
(* model call or tool comes back as {success: false}, never as a throw.    *)
(* processMessage.ts 196 does not read result.success.                     *)
(***************************************************************************)
\* where the pass continues after the flow returned with success = ok
AfterAgent(ok) == "agentReturned"

InvokeAgent(p, ok) ==
    /\ pc[p] = "ready"
    /\ pc' = [pc EXCEPT ![p] = AfterAgent(ok)]
    /\ agentOk' = [agentOk EXCEPT ![p] = ok]
    /\ agentDone' = IF ok THEN agentDone \cup Range(claimed[p]) ELSE agentDone
    /\ UNCHANGED <<senders, clock, storeVars, inflight, queue, pthread, pjob,
                   claimed, newPending, lastAborted, probe>>

(***************************************************************************)
(* messageStore.ts: markProcessedAndCheckPending, one transaction: the     *)
(* updates are buffered, the pending query reads the stored documents.     *)
(***************************************************************************)
MarkProcessed(ids) ==
    [m \in Msgs |-> IF m \in Range(ids) THEN PROCESSED ELSE status[m]]

Release(p, ok) ==
    /\ pc[p] = "agentReturned"
    /\ IF ok
       THEN /\ status' = MarkProcessed(claimed[p])
            /\ newPending' = [newPending EXCEPT ![p] = PendingMessages(pthread[p])]
            /\ pc' = [pc EXCEPT ![p] = "released"]
            /\ claimed' = [claimed EXCEPT ![p] = << >>]
       ELSE /\ pc' = [pc EXCEPT ![p] = "catch"]
            /\ UNCHANGED <<status, newPending, claimed>>
    /\ agentOk' = [agentOk EXCEPT ![p] = TRUE]
    /\ UNCHANGED <<senders, clock, createdAt, inflight, queue, pthread, pjob,
                   agentDone, lastAborted, probe>>

(***************************************************************************)
(* processMessage.ts 208-226: the follow-up scheduleProcessing when new    *)
(* pending messages were found (its error is logged), then the 200 answer. *)
(***************************************************************************)
Finish(p, fault) ==
    /\ pc[p] = "released"
    /\ IF newPending[p] # << >>
       THEN /\ queue' = TaskSucceeded(
                            ScheduleProcessing(queue, pthread[p], clock, fault), p)
       ELSE /\ fault = FALSE
            /\ queue' = TaskSucceeded(queue, p)
    /\ EndPass(p, TRUE)
    /\ UNCHANGED <<senders, clock, storeVars, inflight, agentDone, lastAborted, probe>>

(***************************************************************************)
(* processMessage.ts 227-241: the catch block.  updateMessageStatus writes *)
(* PENDING to every claimed id in one batch; its own failure is logged.    *)
(* Then the 500 answer.                                                    *)
(***************************************************************************)
UpdateMessageStatus(ids, s) ==
    [m \in Msgs |-> IF m \in Range(ids) THEN s ELSE status[m]]

Catch(p, abortOk) ==
    /\ pc[p] = "catch"
    /\ IF abortOk
       THEN /\ status' = UpdateMessageStatus(claimed[p], PENDING)
            /\ lastAborted' = [lastAborted EXCEPT ![pthread[p]] = claimed[p]]
       ELSE UNCHANGED <<status, lastAborted>>
    /\ queue' = TaskFailed(queue, p)
    /\ EndPass(p, FALSE)
    /\ UNCHANGED <<senders, clock, createdAt, inflight, agentDone, probe>>

(***************************************************************************)
(* processMessage.ts 117-123: timeoutSeconds 120.  The platform kills the  *)
(* instance wherever it is; no handler code runs; the task is retried.     *)
(***************************************************************************)
Timeout(p) ==
    /\ pc[p] # "idle"
    /\ queue' = TaskFailed(queue, p)
    /\ EndPass(p, FALSE)
    /\ UNCHANGED <<senders, clock, storeVars, inflight, agentDone, lastAborted, probe>>

Next ==
    \/ \E t \in Threads : \E id \in MsgIds[t] : \E now \in 0..MaxClock :
          StoreMessage(t, id, now)
    \/ \E t \in Threads : \E fault \in BOOLEAN : WebhookSchedule(t, fault)
    \/ \E p \in Passes : \E i \in DOMAIN queue : Fire(p, i)
    \/ \E p \in Passes : Claim(p)
    \/ \E p \in Passes : ClaimFails(p)
    \/ \E p \in Passes : \E ok \in BOOLEAN : BuildInput(p, ok)
    \/ \E p \in Passes : \E ok \in BOOLEAN : InvokeAgent(p, ok)
    \/ \E p \in Passes : \E ok \in BOOLEAN : Release(p, ok)
    \/ \E p \in Passes : \E fault \in BOOLEAN : Finish(p, fault)
    \/ \E p \in Passes : \E abortOk \in BOOLEAN : Catch(p, abortOk)
    \/ \E p \in Passes : Timeout(p)

Spec == Init /\ [][Next]_vars

TypeOK ==
    /\ clock \in 0..MaxClock
    /\ status \in [Msgs -> MessageStatus \cup {ABSENT}]
    /\ createdAt \in [Msgs -> 0..MaxClock]
    /\ inflight \in [Threads -> 0..MaxInflight]
    /\ pc \in [Passes -> {"idle", "start", "claimed", "ready", "agentReturned",
                          "released", "catch"}]
    /\ pthread \in [Passes -> Threads]
    /\ \A p \in Passes : Range(claimed[p]) \subseteq MsgsOf(pthread[p])

(***************************************************************************)
(* The task name as a pure function: two scheduleProcessing calls, each    *)
(* with its conversation key and the time of the call.                     *)
(***************************************************************************)
ProbeKeys == {T1, T2, <<"a", ".">>, <<"a", "_">>}
NowValues == {k * MIN_DELAY_SECONDS : k \in 0..MaxNow}

NameInit ==
    /\ MainInit
    /\ senders = {}
    /\ probe \in [op : {"taskName"}, keyA : ProbeKeys, nowA : NowValues,
                  keyB : ProbeKeys, nowB : NowValues, names : {<< >>}]

ProbeTaskName ==
    /\ probe.op = "taskName"
    /\ probe.names = << >>
    /\ probe' = [probe EXCEPT !.names = <<TaskName(probe.keyA, probe.nowA),
                                          TaskName(probe.keyB, probe.nowB)>>]
    /\ UNCHANGED <<senders, clock, storeVars, inflight, queue, passVars,
                   agentDone, lastAborted>>

NameNext == ProbeTaskName

NameSpec == NameInit /\ [][NameNext]_vars

(***************************************************************************)
(* webhookHandler.ts: instagramWebhook, one request from its arrival to    *)
(* its response.  The request and the handler's position are the record    *)
(* probe; the store and the queue are the variables of the main model.     *)
(***************************************************************************)
MaxEntries == 2

INSTAGRAM_VERIFY_TOKEN == "tok"
\* process.env values; the empty value is the unset one.  A run of the event
\* loop draws them in its first state (probe.cfg)
TEST_MODE_USERNAME == IF probe.op = "event" THEN probe.cfg.username ELSE ""
TEST_MODE_SENDER_ID == IF probe.op = "event" THEN probe.cfg.senderId ELSE << >>
RESET_KEYWORD == IF probe.op = "event" THEN probe.cfg.keyword ELSE << >>
INSTAGRAM_PAGE_ID == IF probe.op = "event" THEN probe.cfg.pageId ELSE << >>

\* crypto.createHmac("sha256", secret).update(payload).digest("hex"), with
\* its "sha256=" prefix: equal exactly for equal secret and payload
Hmac(secret, payload) == <<"sha256=", secret, payload>>
NoSignature == << >>

ValidateSignature(payload, signature, secret) ==
    IF signature = NoSignature \/ secret = "" THEN FALSE
    ELSE signature = Hmac(secret, payload)

\* the condition under which the handler runs validateSignature at all
SignatureChecked(secret, emulator) == secret # "" /\ ~emulator

\* a filter without the check of the sender against the page id
FilteredKindsNoPage == {"echo", "reaction", "read", "postback", "nomessage"}

FilteredKinds == {"echo", "reaction", "read", "postback", "nomessage", "ownpage"}
ShouldProcessMessage(e) == e.kind \notin FilteredKinds

\* a filter that lets a sender through when the profile could not be fetched
AllowUnverified(username, fetched) ==
    IF TEST_MODE_USERNAME = "" THEN TRUE
    ELSE ~fetched \/ username = TEST_MODE_USERNAME

IsAllowedInTestMode(username, fetched) ==
    IF TEST_MODE_USERNAME = "" THEN TRUE
    ELSE fetched /\ username = TEST_MODE_USERNAME

\* a verification branch that does not compare the token
AdmissionAnyToken(r) ==
    IF r.method = "GET" THEN (IF r.mode = "subscribe" THEN 200 ELSE 403) ELSE 0

\* the answer of the handler before its loop; 0: the loop is entered
Admission(r) ==
    IF r.method = "GET"
    THEN (IF r.mode = "subscribe" /\ r.token = INSTAGRAM_VERIFY_TOKEN THEN 200 ELSE 403)
    ELSE IF r.method # "POST" THEN 405
    ELSE IF ~r.hasBody THEN 400
    ELSE IF SignatureChecked(r.secret, r.emulator)
            /\ ~ValidateSignature(r.rawBody, r.sig, r.secret) THEN 401
    ELSE IF r.object = "badjson" THEN 400
    ELSE IF r.object # "instagram" THEN 200
    ELSE 0

\* the body sent with the answer: res.status(200).send(challenge) on a
\* verified GET, the fixed text of the branch otherwise
ResponseBody(r) ==
    IF r.method = "GET"
    THEN (IF Admission(r) = 200 THEN r.challenge ELSE "Forbidden")
    ELSE IF Admission(r) = 405 THEN "Method not allowed"
    ELSE IF Admission(r) = 401 THEN "Invalid signature"
    ELSE IF Admission(r) = 400 THEN (IF r.hasBody THEN "Invalid JSON" ELSE "Bad request")
    ELSE "OK"

\* a handler that lets the error of a message end the request (answer 500)
HandlerRethrows(failed) == IF failed THEN "fail" ELSE "next"

\* try/catch around storeMessage and scheduleProcessing: the error is logged
\* and the loop goes on
HandlerCatch(failed) == "next"

\* a handler that goes on to scheduleProcessing whatever storeMessage did
ScheduleAnyway(ok) == "schedule"

\* the try block: scheduleProcessing is reached only when storeMessage returned
NextOnStore(ok) == IF ok THEN "schedule" ELSE "caught"

HookEntries == {[kind |-> "message", id |-> 1], [kind |-> "message", id |-> 2],
                [kind |-> "echo", id |-> 1]}
EntrySeqs == UNION {[1..n -> HookEntries] : n \in 0..MaxEntries}
HookSignatures == {NoSignature, Hmac("s", "b"), Hmac("z", "b"), Hmac("s", "x")}

HookRequests ==
    [method : {"GET"}, mode : {"subscribe", "other"}, token : {"tok", "bad", ""},
     challenge : {"abc123", "Forbidden"},
     hasBody : {FALSE}, rawBody : {"b"}, sig : {NoSignature}, secret : {"s"},
     emulator : {FALSE}, object : {"instagram"}, entries : {<< >>}]
    \cup
    [method : {"POST", "PUT"}, mode : {"other"}, token : {"bad"},
     challenge : {"abc123"},
     hasBody : BOOLEAN, rawBody : {"b"}, sig : HookSignatures, secret : {"", "s"},
     emulator : BOOLEAN, object : {"instagram", "page", "badjson"},
     entries : EntrySeqs]

HookInit ==
    /\ senders = {}
    /\ clock = 0
    /\ status \in {f \in [Msgs -> {ABSENT, PROCESSING}] : f[<<T2, 1>>] = ABSENT}
    /\ createdAt = [m \in Msgs |-> 0]
    /\ inflight = [t \in Threads |-> 0]
    /\ queue \in {<< >>, <<[name |-> TaskName(T1, 0), threadId |-> T1, st |-> "waiting"]>>}
    /\ pc = [p \in Passes |-> "idle"]
    /\ pthread = [p \in Passes |-> T1]
    /\ pjob = [p \in Passes |-> FALSE]
    /\ claimed = [p \in Passes |-> << >>]
    /\ agentOk = [p \in Passes |-> TRUE]
    /\ newPending = [p \in Passes |-> << >>]
    /\ agentDone = {}
    /\ lastAborted = [t \in Threads |-> << >>]
    /\ \E r \in HookRequests :
          probe = [op |-> "webhook", req |-> r, at |-> "recv", i |-> 1,
                   resp |-> 0, body |-> "", log |-> << >>]

hookFrame == <<senders, inflight, passVars, agentDone, lastAborted>>

\* lines 216-292: everything before the loop
HookReceive ==
    /\ probe.op = "webhook" /\ probe.at = "recv"
    /\ probe' = IF Admission(probe.req) = 0
                THEN [probe EXCEPT !.at = "loop"]
                ELSE [probe EXCEPT !.at = "done", !.resp = Admission(probe.req),
                                   !.body = ResponseBody(probe.req)]
    /\ UNCHANGED <<clock, storeVars, queue, hookFrame>>

\* lines 295-314: an event that shouldProcessMessage or the test-mode filter
\* drops
HookSkip ==
    /\ probe.op = "webhook" /\ probe.at = "loop"
    /\ probe.i <= Len(probe.req.entries)
    /\ ~(ShouldProcessMessage(probe.req.entries[probe.i]) /\ IsAllowedInTestMode("", TRUE))
    /\ probe' = [probe EXCEPT !.i = @ + 1]
    /\ UNCHANGED <<clock, storeVars, queue, hookFrame>>

\* line 326: storeMessage(message, threadId), threadId the sender's id
HookStore(ok, now) ==
    /\ probe.op = "webhook" /\ probe.at = "loop"
    /\ probe.i <= Len(probe.req.entries)
    /\ ShouldProcessMessage(probe.req.entries[probe.i]) /\ IsAllowedInTestMode("", TRUE)
    /\ now \in clock..MaxClock
    /\ clock' = now
    /\ LET m == <<T1, probe.req.entries[probe.i].id>> IN
          /\ status' = IF ok THEN [status EXCEPT ![m] = StoredStatus(status[m])] ELSE status
          /\ createdAt' = IF ok THEN [createdAt EXCEPT ![m] = now] ELSE createdAt
          /\ probe' = [probe EXCEPT
                 !.log = Append(@, [op |-> "store", id |-> m[2], ok |-> ok]),
                 !.at = IF NextOnStore(ok) = "schedule" THEN "schedule"
                        ELSE IF HandlerCatch(TRUE) = "next" THEN "loop" ELSE "done",
                 !.resp = IF NextOnStore(ok) = "schedule" \/ HandlerCatch(TRUE) = "next"
                          THEN 0 ELSE 500,
                 !.i = IF NextOnStore(ok) = "schedule" THEN @ ELSE @ + 1]
    /\ UNCHANGED <<queue, hookFrame>>

\* line 327: scheduleProcessing(threadId, message.id)
HookSchedule(fault) ==
    /\ probe.op = "webhook" /\ probe.at = "schedule"
    /\ LET id == probe.req.entries[probe.i].id
           outcome == ScheduleOutcome(CreateTaskCode(queue, TaskName(T1, clock), fault))
       IN  /\ queue' = ScheduleProcessing(queue, T1, clock, fault)
           /\ probe' = [probe EXCEPT
                  !.log = Append(@, [op |-> "schedule", id |-> id, ok |-> outcome = "returned"]),
                  !.at = IF HandlerCatch(outcome = "thrown") = "next" THEN "loop" ELSE "done",
                  !.resp = IF HandlerCatch(outcome = "thrown") = "next" THEN 0 ELSE 500,
                  !.i = @ + 1]
    /\ UNCHANGED <<clock, storeVars, hookFrame>>

\* line 340: res.status(200) after the loop
HookRespond ==
    /\ probe.op = "webhook" /\ probe.at = "loop"
    /\ probe.i > Len(probe.req.entries)
    /\ probe' = [probe EXCEPT !.at = "done", !.resp = 200, !.body = "OK"]
    /\ UNCHANGED <<clock, storeVars, queue, hookFrame>>

HookNext ==
    \/ HookReceive
    \/ HookSkip
    \/ \E ok \in BOOLEAN : \E now \in 0..MaxClock : HookStore(ok, now)
    \/ \E fault \in BOOLEAN : HookSchedule(fault)
    \/ HookRespond

HookSpec == HookInit /\ [][HookNext]_vars

(***************************************************************************)
(* The debounce in time.  Two messages of one conversation, each delivered *)
(* by its own webhook request; the queue hands a task to processMessage no *)
(* earlier than its scheduleTime; no call fails and nothing is delivered   *)
(* twice.  probe carries the time in seconds (now), the scheduleTime of    *)
(* the task in the queue (due), the number of tasks created so far (jobs)  *)
(* and whether a scheduleProcessing call was made after the task had been  *)
(* handed to a pass (late).                                                *)
(***************************************************************************)
MaxTime == 8

\* a delay that may be shorter than MIN_DELAY_SECONDS
ShortDelays == 1..MAX_DELAY_SECONDS

\* getRandomDelay(): floor(random() * (MAX - MIN + 1)) + MIN
GetRandomDelay == MIN_DELAY_SECONDS..MAX_DELAY_SECONDS

\* a task of the conversation has been handed to processMessage
Dispatched(t) ==
    \/ \E p \in Passes : pc[p] # "idle" /\ pthread[p] = t
    \/ \E m \in MsgsOf(t) : status[m] \in {PROCESSING, PROCESSED}

DebounceInit ==
    /\ MainInit
    /\ senders = {T1}
    /\ probe = [op |-> "debounce", now |-> 0, due |-> 0, jobs |-> 0, late |-> FALSE]

debounceFrame == <<senders, clock, agentDone, lastAborted>>

\* time passes
DTick ==
    /\ probe.op = "debounce"
    /\ probe.now < MaxTime
    /\ probe' = [probe EXCEPT !.now = @ + 1]
    /\ UNCHANGED <<storeVars, inflight, queue, passVars, debounceFrame>>

\* storeMessage of a new message: createdAt = Date.now()
DStore(id) ==
    /\ probe.op = "debounce"
    /\ status[<<T1, id>>] = ABSENT
    /\ status' = [status EXCEPT ![<<T1, id>>] = StoredStatus(status[<<T1, id>>])]
    /\ createdAt' = [createdAt EXCEPT ![<<T1, id>>] = probe.now]
    /\ inflight' = [inflight EXCEPT ![T1] = @ + 1]
    /\ UNCHANGED <<queue, passVars, debounceFrame, probe>>

\* scheduleProcessing of a webhook request that has stored its message:
\* scheduleTime = Date.now() + delaySeconds * 1000
DSchedule(delay) ==
    /\ probe.op = "debounce"
    /\ inflight[T1] > 0
    /\ inflight' = [inflight EXCEPT ![T1] = @ - 1]
    /\ queue' = ScheduleProcessing(queue, T1, probe.now, FALSE)
    /\ probe' = IF CreateTaskCode(queue, TaskName(T1, probe.now), FALSE) = "OK"
                THEN [probe EXCEPT !.due = probe.now + delay, !.jobs = @ + 1,
                                   !.late = @ \/ Dispatched(T1)]
                ELSE [probe EXCEPT !.late = @ \/ Dispatched(T1)]
    /\ UNCHANGED <<storeVars, passVars, debounceFrame>>

\* the queue hands the waiting task to processMessage at its scheduleTime or
\* later
DFire(p, i) ==
    /\ probe.op = "debounce"
    /\ i \in DOMAIN queue
    /\ queue[i].st = "waiting"
    /\ probe.now >= probe.due
    /\ Fire(p, i)

DebounceNext ==
    \/ DTick
    \/ \E id \in MsgIds[T1] : DStore(id)
    \/ \E delay \in GetRandomDelay : DSchedule(delay)
    \/ \E p \in Passes : \E i \in DOMAIN queue : DFire(p, i)
    \/ \E p \in Passes : Claim(p)
    \/ \E p \in Passes : BuildInput(p, TRUE)
    \/ \E p \in Passes : InvokeAgent(p, TRUE)
    \/ \E p \in Passes : Release(p, TRUE)
    \/ \E p \in Passes : Finish(p, FALSE)

DebounceSpec == DebounceInit /\ [][DebounceNext]_vars

(***************************************************************************)
(* The transcript a pass hands to the agent.  storeMessage reads           *)
(* Date.now() and then awaits docRef.set(): the two are separate steps     *)
(* here, the value read waiting in probe.writes until the write commits.   *)
(* No call fails and no message id is delivered twice.  probe.limit is the *)
(* limit argument of getConversationHistory (processMessage passes 50; the *)
(* model runs the same query with limits the three messages can exceed).   *)
(***************************************************************************)
MaxLimit == 2
NotWriting == -1

Reverse(seq) == [i \in 1..Len(seq) |-> seq[Len(seq) + 1 - i]]
Take(seq, n) == SubSeq(seq, 1, IF n < Len(seq) THEN n ELSE Len(seq))

\* where status == PROCESSED, orderBy createdAt desc, limit(limit), reversed
GetConversationHistory(t, limit) ==
    Reverse(Take(Reverse(SortByCreatedAt(WithStatus(t, PROCESSED))), limit))

\* processMessage.ts 174-193: allMessages followed by currentMessage, that is
\* the history followed by every claimed message
Transcript(p, limit) == GetConversationHistory(pthread[p], limit) \o claimed[p]

TranscriptInit ==
    /\ MainInit
    /\ senders = {T1}
    /\ \E l \in 1..MaxLimit :
          probe = [op |-> "transcript", limit |-> l,
                   writes |-> [id \in MsgIds[T1] |-> NotWriting]]

\* storeMessage, line 65: const now = Date.now()
TBegin(id, now) ==
    /\ probe.op = "transcript"
    /\ status[<<T1, id>>] = ABSENT /\ probe.writes[id] = NotWriting
    /\ now \in clock..MaxClock
    /\ clock' = now
    /\ probe' = [probe EXCEPT !.writes[id] = now]
    /\ UNCHANGED <<senders, storeVars, inflight, queue, passVars, agentDone, lastAborted>>

\* storeMessage, line 82: docRef.set(storedMessage) commits
TCommit(id) ==
    /\ probe.op = "transcript"
    /\ probe.writes[id] # NotWriting
    /\ status' = [status EXCEPT ![<<T1, id>>] = StoredStatus(status[<<T1, id>>])]
    /\ createdAt' = [createdAt EXCEPT ![<<T1, id>>] = probe.writes[id]]
    /\ inflight' = [inflight EXCEPT ![T1] = @ + 1]
    /\ probe' = [probe EXCEPT !.writes[id] = NotWriting]
    /\ UNCHANGED <<senders, clock, queue, passVars, agentDone, lastAborted>>

TranscriptNext ==
    \/ \E id \in MsgIds[T1] : \E now \in 0..MaxClock : TBegin(id, now)
    \/ \E id \in MsgIds[T1] : TCommit(id)
    \/ WebhookSchedule(T1, FALSE)
    \/ \E p \in Passes : \E i \in DOMAIN queue : Fire(p, i)
    \/ \E p \in Passes : Claim(p)
    \/ \E p \in Passes : BuildInput(p, TRUE)
    \/ \E p \in Passes : InvokeAgent(p, TRUE)
    \/ \E p \in Passes : Release(p, TRUE)
    \/ \E p \in Passes : Finish(p, FALSE)

TranscriptSpec == TranscriptInit /\ [][TranscriptNext]_vars

(***************************************************************************)
(* The loop body of the webhook handler for one messaging event, in its    *)
(* two versions: webhookHandler.ts filters test mode by the sender's       *)
(* username (fetched with getUserProfile), the handler of part_012 filters *)
(* by sender id and knows the reset keyword.  probe.cfg is the environment *)
(* of the deployment, probe.ev the event, probe.log the calls made.        *)
(***************************************************************************)
\* the username getUserProfile returns for a sender
Username(senderId) == IF senderId = T1 THEN "alice" ELSE "bob"

\* String.prototype.toLowerCase and trim over the letters the texts use
ToLower(str) == [i \in DOMAIN str |-> IF str[i] = "R" THEN "r" ELSE str[i]]

RECURSIVE TrimStart(_)
TrimStart(str) ==
    IF str # << >> /\ Head(str) = " " THEN TrimStart(Tail(str)) ELSE str

Trim(str) == Reverse(TrimStart(Reverse(TrimStart(str))))

\* a comparison of the text as it was sent
IsExactKeyword(text) == RESET_KEYWORD # << >> /\ text = RESET_KEYWORD

\* part_012 line 314
IsResetCommand(text) ==
    RESET_KEYWORD # << >> /\ ToLower(Trim(text)) = ToLower(RESET_KEYWORD)

\* shouldProcessEvent: the checks in the order of the source, as the kind of
\* the event
EventKind(ev) ==
    IF ev.hasMessage /\ ev.is_echo THEN "echo"
    ELSE IF ev.reaction THEN "reaction"
    ELSE IF ev.read THEN "read"
    ELSE IF ev.postback THEN "postback"
    ELSE IF ~ev.hasMessage THEN "nomessage"
    ELSE IF ev.sender = INSTAGRAM_PAGE_ID THEN "ownpage"
    ELSE "message"

ShouldProcessEvent(ev) == ShouldProcessMessage([kind |-> EventKind(ev), id |-> ev.mid])

\* part_012 174-189: isAllowedInTestMode(senderId)
IsAllowedSender(senderId) ==
    IF TEST_MODE_SENDER_ID = << >> THEN TRUE ELSE senderId = TEST_MODE_SENDER_ID

\* deleteConversationData(threadId): every stored message of the
\* conversation is gone
DeleteConversationData(st, t) ==
    [m \in Msgs |-> IF m \in MsgsOf(t) THEN ABSENT ELSE st[m]]

EventTexts == {<<"r">>, <<"R">>, <<" ", "r">>, <<"h">>, << >>}
EventKeywords == {<< >>, <<"r">>, <<"R">>, <<" ", "r">>}

Events ==
    {e \in [is_echo : BOOLEAN, reaction : BOOLEAN, read : BOOLEAN,
            postback : BOOLEAN, referral : BOOLEAN, hasMessage : BOOLEAN,
            sender : Threads, mid : {1}, text : EventTexts] :
        /\ e.is_echo => e.hasMessage
        /\ ~e.hasMessage => e.text = << >>}

EventConfigs ==
    [variant : {"username"}, pageId : {<< >>, T2}, username : {"", "alice"},
     senderId : {<< >>}, keyword : {<< >>}]
    \cup
    [variant : {"senderId"}, pageId : {<< >>, T2}, username : {""},
     senderId : {<< >>, T1}, keyword : EventKeywords]

EventInit ==
    /\ senders = {}
    /\ clock = 0
    /\ status \in {[m \in Msgs |-> ABSENT], [m \in Msgs |-> PROCESSED]}
    /\ createdAt = [m \in Msgs |-> 0]
    /\ inflight = [t \in Threads |-> 0]
    /\ queue = << >>
    /\ pc = [p \in Passes |-> "idle"]
    /\ pthread = [p \in Passes |-> T1]
    /\ pjob = [p \in Passes |-> FALSE]
    /\ claimed = [p \in Passes |-> << >>]
    /\ agentOk = [p \in Passes |-> TRUE]
    /\ newPending = [p \in Passes |-> << >>]
    /\ agentDone = {}
    /\ lastAborted = [t \in Threads |-> << >>]
    /\ \E c \in EventConfigs : \E e \in Events :
          probe = [op |-> "event", cfg |-> c, ev |-> e, at |-> "filter",
                   resp |-> 0, log |-> << >>]

\* shouldProcessEvent and transformToInstagramMessage
EvFilter ==
    /\ probe.op = "event" /\ probe.at = "filter"
    /\ probe' = [probe EXCEPT
           !.at = IF ShouldProcessEvent(probe.ev) THEN "testmode" ELSE "end"]
    /\ UNCHANGED <<clock, storeVars, queue, hookFrame>>

\* isAllowedInTestMode(threadId), threadId the sender id of the event; the
\* username version calls getUserProfile when a username is configured
EvTestMode(fetched) ==
    /\ probe.op = "event" /\ probe.at = "testmode"
    /\ LET byName == probe.cfg.variant = "username"
           allowed == IF byName
                      THEN IsAllowedInTestMode(Username(probe.ev.sender), fetched)
                      ELSE IsAllowedSender(probe.ev.sender)
       IN  probe' = [probe EXCEPT
               !.log = IF byName /\ TEST_MODE_USERNAME # ""
                       THEN Append(@, [op |-> "profile", ok |-> fetched]) ELSE @,
               !.at = IF ~allowed THEN "end"
                      ELSE IF byName THEN "store" ELSE "reset"]
    /\ UNCHANGED <<clock, storeVars, queue, hookFrame>>

\* part_012 313-328: the reset command; an error of deleteConversationData
\* is logged and the loop goes on to the next event
EvReset(ok) ==
    /\ probe.op = "event" /\ probe.at = "reset"
    /\ IF IsResetCommand(probe.ev.text)
       THEN /\ status' = IF ok THEN DeleteConversationData(status, probe.ev.sender)
                         ELSE status
            /\ probe' = [probe EXCEPT !.log = Append(@, [op |-> "delete", ok |-> ok]),
                                      !.at = "end"]
       ELSE /\ ok
            /\ status' = status
            /\ probe' = [probe EXCEPT !.at = "store"]
    /\ UNCHANGED <<clock, createdAt, queue, hookFrame>>

\* storeMessage(message, threadId)
EvStore(ok, now) ==
    /\ probe.op = "event" /\ probe.at = "store"
    /\ now \in clock..MaxClock
    /\ clock' = now
    /\ LET m == <<probe.ev.sender, probe.ev.mid>> IN
          /\ status' = IF ok THEN [status EXCEPT ![m] = StoredStatus(status[m])] ELSE status
          /\ createdAt' = IF ok THEN [createdAt EXCEPT ![m] = now] ELSE createdAt
          /\ probe' = [probe EXCEPT
                 !.log = Append(@, [op |-> "store", ok |-> ok]),
                 !.at = IF NextOnStore(ok) = "schedule" THEN "schedule" ELSE "end"]
    /\ UNCHANGED <<queue, hookFrame>>

\* scheduleProcessing(threadId, message.id)
EvSchedule(fault) ==
    /\ probe.op = "event" /\ probe.at = "schedule"
    /\ LET t == probe.ev.sender
           outcome == ScheduleOutcome(CreateTaskCode(queue, TaskName(t, clock), fault))
       IN  /\ queue' = ScheduleProcessing(queue, t, clock, fault)
           /\ probe' = [probe EXCEPT
                  !.log = Append(@, [op |-> "schedule", ok |-> outcome = "returned"]),
                  !.at = "end"]
    /\ UNCHANGED <<clock, storeVars, hookFrame>>

\* res.status(200).send("OK") after the loop
EvRespond ==
    /\ probe.op = "event" /\ probe.at = "end"
    /\ probe' = [probe EXCEPT !.at = "done", !.resp = 200]
    /\ UNCHANGED <<clock, storeVars, queue, hookFrame>>

EventNext ==
    \/ EvFilter
    \/ \E fetched \in BOOLEAN : EvTestMode(fetched)
    \/ \E ok \in BOOLEAN : EvReset(ok)
    \/ \E ok \in BOOLEAN : \E now \in 0..MaxClock : EvStore(ok, now)
    \/ \E fault \in BOOLEAN : EvSchedule(fault)
    \/ EvRespond

EventSpec == EventInit /\ [][EventNext]_vars

(***************************************************************************)
(* processMessage.ts 117-157: what processMessage does with a request      *)
(* before its claim.  probe.req is the request with the environment of the *)
(* instance; a request that is let through starts a pass of the main       *)
(* model.                                                                  *)
(***************************************************************************)
PROCESS_MESSAGE_URL == "https://fn/processMessage"
NoAccount == << >>

\* `${PROJECT_ID}@appspot.gserviceaccount.com`, empty without a project id
CLOUD_TASKS_SERVICE_ACCOUNT(projectId) ==
    IF projectId # "" THEN <<projectId, "@appspot.gserviceaccount.com">> ELSE NoAccount

\* authClient.verifyIdToken({idToken, audience}): the token is signed by the
\* issuer and unexpired, and its aud is the audience asked for
VerifyIdToken(token, audience) == token.signed /\ token.aud = audience

ValidateOidcToken(r) ==
    IF r.emulator THEN TRUE
    ELSE IF r.header # "bearer" THEN FALSE
    ELSE IF ~VerifyIdToken(r.token, PROCESS_MESSAGE_URL) THEN FALSE
    ELSE IF CLOUD_TASKS_SERVICE_ACCOUNT(r.projectId) # NoAccount
            /\ r.token.email # CLOUD_TASKS_SERVICE_ACCOUNT(r.projectId) THEN FALSE
    ELSE TRUE

\* the answer before the claim; 0: the claim is made
ProcessAdmission(r) ==
    IF r.method # "POST" THEN 405
    ELSE IF ~ValidateOidcToken(r) THEN 401
    ELSE IF r.body \in {"badjson", "nothread"} THEN 400
    ELSE 0

AuthTokens ==
    [signed : BOOLEAN, aud : {PROCESS_MESSAGE_URL, "https://other"},
     email : {CLOUD_TASKS_SERVICE_ACCOUNT("proj"), CLOUD_TASKS_SERVICE_ACCOUNT("other")}]

AuthRequests ==
    [method : {"POST", "GET"}, header : {"none", "basic", "bearer"},
     token : AuthTokens, body : {"thread", "badjson", "nothread"},
     emulator : BOOLEAN, projectId : {"", "proj"}]

AuthInit ==
    /\ senders = {}
    /\ clock = 0
    /\ status \in {f \in [Msgs -> {ABSENT, PENDING}] : f[<<T2, 1>>] = ABSENT}
    /\ createdAt = [m \in Msgs |-> 0]
    /\ inflight = [t \in Threads |-> 0]
    /\ queue = << >>
    /\ pc = [p \in Passes |-> "idle"]
    /\ pthread = [p \in Passes |-> T1]
    /\ pjob = [p \in Passes |-> FALSE]
    /\ claimed = [p \in Passes |-> << >>]
    /\ agentOk = [p \in Passes |-> TRUE]
    /\ newPending = [p \in Passes |-> << >>]
    /\ agentDone = {}
    /\ lastAborted = [t \in Threads |-> << >>]
    /\ \E r \in AuthRequests :
          probe = [op |-> "auth", req |-> r, at |-> "recv", resp |-> 0]

\* lines 124-152: method, token, payload; then the pass begins (threadId of
\* the payload is conversation 17)
AuthReceive ==
    /\ probe.op = "auth" /\ probe.at = "recv"
    /\ IF ProcessAdmission(probe.req) = 0
       THEN /\ probe' = [probe EXCEPT !.at = "pass"]
            /\ pc' = [pc EXCEPT ![1] = "start"]
       ELSE /\ probe' = [probe EXCEPT !.at = "done",
                                      !.resp = ProcessAdmission(probe.req)]
            /\ pc' = pc
    /\ UNCHANGED <<senders, clock, storeVars, inflight, queue, pthread, pjob,
                   claimed, agentOk, newPending, agentDone, lastAborted>>

AuthNext ==
    \/ AuthReceive
    \/ \E p \in Passes : Claim(p)
    \/ \E p \in Passes : BuildInput(p, TRUE)
    \/ \E p \in Passes : InvokeAgent(p, TRUE)
    \/ \E p \in Passes : Release(p, TRUE)
    \/ \E p \in Passes : Finish(p, FALSE)

AuthSpec == AuthInit /\ [][AuthNext]_vars

(***************************************************************************)
(* The manager notification of one user: check_last_notification           *)
(* (part_005) and escalate_to_manager (part_007), as the agent may call    *)
(* them, in any order and at any time.  probe.now is Date.now() in         *)
(* milliseconds, probe.last the lastNotification field of the user         *)
(* document (NoNotification: the field or the document is missing),        *)
(* probe.sentAt the times at which a notification went out to the manager, *)
(* probe.answer the last output of check_last_notification.                *)
(***************************************************************************)
MaxTicks == 4
MaxSent == 2

SEVEN_DAYS_MS == 7 * 24 * 60 * 60 * 1000
NoNotification == 0
NoAnswer == [canNotify |-> TRUE, asked |-> FALSE, now |-> 0, last |-> 0]

\* the time the runs cover
NotifyHorizon == 3 * SEVEN_DAYS_MS

\* the steps time takes between two calls
NotifySteps == {1, SEVEN_DAYS_MS - 1}

\* check_last_notification: canNotify
CheckLastNotification(last, now) ==
    IF last = NoNotification THEN TRUE ELSE now - last > SEVEN_DAYS_MS

\* escalate_to_manager: whether the message is sent to the manager, given
\* the stored lastNotification and the time of the call
EscalationSends(last, now) == TRUE

\* a tool that records the time of the call whatever the send came to
RecordedAlways(last, now, sendOk, writeOk) == IF writeOk THEN now ELSE last

\* part_007 199-210: the lastNotification field after the call; the set()
\* is reached only under result.success and its error is caught
RecordedAfter(last, now, sendOk, writeOk) ==
    IF sendOk /\ writeOk THEN now ELSE last

\* part_007 212: return result, the result of the send
EscalateResult(sendOk, writeOk) == [success |-> sendOk]

NotifyInit ==
    /\ MainInit
    /\ senders = {}
    /\ probe = [op |-> "notify", now |-> 1, ticks |-> 0, last |-> NoNotification,
                sentAt |-> << >>, answer |-> NoAnswer,
                result |-> [success |-> FALSE]]

notifyFrame == <<senders, clock, storeVars, inflight, queue, passVars, agentDone,
                 lastAborted>>

NTick(d) ==
    /\ probe.op = "notify"
    /\ probe.ticks < MaxTicks
    /\ probe.now <= NotifyHorizon - d
    /\ probe' = [probe EXCEPT !.now = @ + d, !.ticks = @ + 1]
    /\ UNCHANGED notifyFrame

\* part_005 185-205
NCheck ==
    /\ probe.op = "notify"
    /\ probe' = [probe EXCEPT !.answer =
                    [canNotify |-> CheckLastNotification(probe.last, probe.now),
                     asked |-> TRUE, now |-> probe.now, last |-> probe.last]]
    /\ UNCHANGED notifyFrame

\* part_007 186-212: send, then on success record Date.now(); a failing
\* write is logged
NEscalate(sendOk, writeOk) ==
    /\ probe.op = "notify"
    /\ Len(probe.sentAt) < MaxSent
    /\ EscalationSends(probe.last, probe.now)
    /\ probe' = [probe EXCEPT
           !.sentAt = IF sendOk THEN Append(@, probe.now) ELSE @,
           !.last = RecordedAfter(probe.last, probe.now, sendOk, writeOk),
           !.result = EscalateResult(sendOk, writeOk)]
    /\ UNCHANGED notifyFrame

NotifyNext ==
    \/ \E d \in NotifySteps : NTick(d)
    \/ NCheck
    \/ \E sendOk, writeOk \in BOOLEAN : NEscalate(sendOk, writeOk)

NotifySpec == NotifyInit /\ [][NotifyNext]_vars

(***************************************************************************)
(* instagram.ts: fetchWithRetry, one call of it.  probe.log is the         *)
(* sequence of outcomes of the fetch calls made so far, probe.attempt the  *)
(* loop counter, probe.slept the delays waited.                            *)
(***************************************************************************)
MAX_RETRIES == 3
INITIAL_RETRY_DELAY_MS == 1000
NoHeader == 0

\* what one fetch can come to: a response (status, Retry-After in seconds)
\* or a thrown network error
FetchOutcomes ==
    [kind : {"response"}, status : {200, 404, 500, 503}, retryAfter : {NoHeader}]
    \cup [kind : {"response"}, status : {429}, retryAfter : {NoHeader, 2}]
    \cup [kind : {"error"}, status : {0}, retryAfter : {NoHeader}]

Pow2(n) == IF n = 0 THEN 1 ELSE IF n = 1 THEN 2 ELSE IF n = 2 THEN 4 ELSE 8

RetryDelay(o, attempt) ==
    IF o.kind = "response" /\ o.status = 429 /\ o.retryAfter # NoHeader
    THEN o.retryAfter * 1000
    ELSE INITIAL_RETRY_DELAY_MS * Pow2(attempt)

\* a loop that does not count its attempts
LoopUnbounded(attempt, retries) == TRUE

\* for (let attempt = 0; attempt < retries; attempt++)
LoopContinues(attempt, retries) == attempt < retries

\* a loop body that gives up a 5xx response of the last attempt as an error
FetchStepThrows5xx(o, attempt, retries) ==
    IF o.kind = "error"
    THEN (IF attempt < retries - 1 THEN "retry" ELSE "fallthrough")
    ELSE IF o.status = 429 /\ attempt < retries - 1 THEN "retry"
    ELSE IF o.status >= 500
    THEN (IF attempt < retries - 1 THEN "retry" ELSE "fallthrough")
    ELSE "return"

\* the body of the loop after one fetch: "retry" sleeps and continues,
\* "fallthrough" leaves the catch block for the next iteration, "return"
\* hands the response to the caller
FetchStep(o, attempt, retries) ==
    IF o.kind = "error"
    THEN (IF attempt < retries - 1 THEN "retry" ELSE "fallthrough")
    ELSE IF o.status = 429 /\ attempt < retries - 1 THEN "retry"
    ELSE IF o.status >= 500 /\ attempt < retries - 1 THEN "retry"
    ELSE "return"

FetchInit ==
    /\ MainInit
    /\ senders = {}
    /\ probe = [op |-> "fetch", retries |-> MAX_RETRIES, attempt |-> 0,
                at |-> "loop", log |-> << >>, slept |-> << >>]

\* one iteration up to its sleep
FetchCall(o) ==
    /\ probe.op = "fetch" /\ probe.at = "loop"
    /\ LoopContinues(probe.attempt, probe.retries)
    /\ Len(probe.log) <= MAX_RETRIES
    /\ LET step == FetchStep(o, probe.attempt, probe.retries) IN
          probe' = [probe EXCEPT
              !.log = Append(@, o),
              !.at = IF step = "retry" THEN "sleep"
                     ELSE IF step = "return" THEN "returned" ELSE "loop",
              !.attempt = IF step = "fallthrough" THEN @ + 1 ELSE @]
    /\ UNCHANGED notifyFrame

\* await sleep(delayMs); continue
FetchSleep ==
    /\ probe.op = "fetch" /\ probe.at = "sleep"
    /\ probe' = [probe EXCEPT
           !.slept = Append(@, RetryDelay(probe.log[Len(probe.log)], probe.attempt)),
           !.attempt = @ + 1,
           !.at = "loop"]
    /\ UNCHANGED notifyFrame

\* the loop is left: throw lastError
FetchThrow ==
    /\ probe.op = "fetch" /\ probe.at = "loop"
    /\ ~LoopContinues(probe.attempt, probe.retries)
    /\ probe' = [probe EXCEPT !.at = "thrown"]
    /\ UNCHANGED notifyFrame

FetchNext ==
    \/ \E o \in FetchOutcomes : FetchCall(o)
    \/ FetchSleep
    \/ FetchThrow

\* every fetch and every sleep comes back
FetchSpec == FetchInit /\ [][FetchNext]_vars /\ WF_vars(FetchNext)

(***************************************************************************)
(* Two conversations at once: both senders write, and the passes of the    *)
(* two dispatch jobs interleave.  No call is failed by the store or the    *)
(* queue and no message is delivered twice; a pass may fail while          *)
(* building the agent's input and abort.                                   *)
(***************************************************************************)
FrameInit == MainInit /\ senders = {T1, T2} /\ probe = NoProbe

\* the first delivery of a message
FirstStore(t, id, now) == status[<<t, id>>] = ABSENT /\ StoreMessage(t, id, now)

FrameNext ==
    \/ \E t \in Threads : \E id \in MsgIds[t] : \E now \in 0..MaxClock :
          FirstStore(t, id, now)
    \/ \E t \in Threads : WebhookSchedule(t, FALSE)
    \/ \E p \in Passes : \E i \in DOMAIN queue : Fire(p, i)
    \/ \E p \in Passes : Claim(p)
    \/ \E p \in Passes : \E ok \in BOOLEAN : BuildInput(p, ok)
    \/ \E p \in Passes : InvokeAgent(p, TRUE)
    \/ \E p \in Passes : Release(p, TRUE)
    \/ \E p \in Passes : Finish(p, FALSE)
    \/ \E p \in Passes : Catch(p, TRUE)

FrameSpec == FrameInit /\ [][FrameNext]_vars

(***************************************************************************)
(* messageStore.ts: the delay and the scheduleTime of one                  *)
(* scheduleProcessing call.  probe.nowMs is Date.now() in milliseconds,    *)
(* probe.r the value of Math.random() in steps of 1 / RandomGrain,         *)
(* probe.seconds the scheduleTime.seconds handed to createTask.            *)
(***************************************************************************)
RandomGrain == 22
NotScheduled == -1

\* getRandomDelay with Math.random() = r / RandomGrain
RandomDelay(r) ==
    ((r * (MAX_DELAY_SECONDS - MIN_DELAY_SECONDS + 1)) \div RandomGrain)
        + MIN_DELAY_SECONDS

\* lines 121 and 145-147: Math.floor((Date.now() + delaySeconds * 1000) / 1000)
ScheduleSeconds(nowMs, delaySeconds) == (nowMs + delaySeconds * 1000) \div 1000

DelayMillis == {0, 1, 500, 999}

DelayInit ==
    /\ MainInit
    /\ senders = {}
    /\ \E sec \in 0..MaxClock : \E ms \in DelayMillis : \E r \in 0..(RandomGrain - 1) :
          probe = [op |-> "delay", nowMs |-> sec * 1000 + ms, r |-> r,
                   delay |-> 0, seconds |-> NotScheduled]

DelaySchedule ==
    /\ probe.op = "delay"
    /\ probe.seconds = NotScheduled
    /\ ~IsCloudTasksMockMode
    /\ probe' = [probe EXCEPT
           !.delay = RandomDelay(probe.r),
           !.seconds = ScheduleSeconds(probe.nowMs, RandomDelay(probe.r))]
    /\ UNCHANGED notifyFrame

DelayNext == DelaySchedule

DelaySpec == DelayInit /\ [][DelayNext]_vars

(***************************************************************************)
(* The tools registry (tools/index.ts with toolsPromise, tools/spond.ts    *)
(* with initialized).  One process, several callers of getAllTools whose   *)
(* awaits interleave; a JavaScript function body runs to its first await   *)
(* without interruption, and neither getAllTools nor loadAllTools awaits   *)
(* before toolsPromise is assigned.                                        *)
(***************************************************************************)
MaxToolCalls == 4
MaxInitCalls == 2

ToolCallers == {"c1", "c2", "c3"}

\* what the registrations inside loadAllTools can do
LoadOutcomes == {"ok", "mcpThrows", "toolThrows"}

\* let toolsPromise = null
NoTools == [kind |-> "null", load |-> 0]

\* tools/index.ts without a cache: every call loads again
ToolsPromiseReload(promise, loaded) == loaded

\* getAllTools: if (!toolsPromise) toolsPromise = loadAllTools(ai); return toolsPromise
ToolsPromiseAfter(promise, loaded) == IF promise = NoTools THEN loaded ELSE promise

\* initSpondMcp: if (initialized) return; defineMcpClient(...); initialized = true
InitSpondMcp(initialized, ok) ==
    IF initialized THEN [initialized |-> TRUE, registers |-> 0, threw |-> FALSE]
    ELSE IF ok THEN [initialized |-> TRUE, registers |-> 1, threw |-> FALSE]
    ELSE [initialized |-> FALSE, registers |-> 0, threw |-> TRUE]

\* loadAllTools as its n-th run: a fresh array, or a rejected promise when a
\* registration throws
LoadAllTools(n, o) ==
    [kind |-> IF o = "ok" THEN "tools" ELSE "rejected", load |-> n]

ToolsInit ==
    /\ MainInit
    /\ senders = {}
    /\ probe = [op |-> "tools", toolsPromise |-> NoTools, initialized |-> FALSE,
                loads |-> 0, registered |-> 0, calls |-> 0, inits |-> 0,
                pc |-> [c \in ToolCallers |-> "idle"],
                got |-> [c \in ToolCallers |-> NoTools]]

\* caller c runs getAllTools up to its return; o is what loadAllTools would do
GetAllTools(c, o) ==
    /\ probe.op = "tools"
    /\ probe.pc[c] # "awaiting"
    /\ probe.calls < MaxToolCalls
    /\ LET init == InitSpondMcp(probe.initialized, o # "mcpThrows")
           loaded == LoadAllTools(probe.loads + 1,
                                  IF init.threw THEN "mcpThrows" ELSE o)
           promise == ToolsPromiseAfter(probe.toolsPromise, loaded)
           ran == promise = loaded
       IN probe' = [probe EXCEPT
              !.toolsPromise = promise,
              !.loads = IF ran THEN @ + 1 ELSE @,
              !.initialized = IF ran THEN init.initialized ELSE @,
              !.registered = IF ran THEN @ + init.registers ELSE @,
              !.calls = @ + 1,
              !.pc[c] = "awaiting",
              !.got[c] = promise]
    /\ UNCHANGED notifyFrame

\* the promise caller c awaits settles and c continues with its value
ToolsResume(c) ==
    /\ probe.op = "tools"
    /\ probe.pc[c] = "awaiting"
    /\ probe' = [probe EXCEPT !.pc[c] = "done"]
    /\ UNCHANGED notifyFrame

\* initSpondMcp called on its own (it is re-exported by tools/index.ts)
ToolsInitSpond(ok) ==
    /\ probe.op = "tools"
    /\ probe.inits < MaxInitCalls
    /\ LET init == InitSpondMcp(probe.initialized, ok)
       IN probe' = [probe EXCEPT
              !.initialized = init.initialized,
              !.registered = @ + init.registers,
              !.inits = @ + 1]
    /\ UNCHANGED notifyFrame

ToolsNext ==
    \/ \E c \in ToolCallers : \E o \in LoadOutcomes : GetAllTools(c, o)
    \/ \E c \in ToolCallers : ToolsResume(c)
    \/ \E ok \in BOOLEAN : ToolsInitSpond(ok)

ToolsSpec == ToolsInit /\ [][ToolsNext]_vars

(***************************************************************************)
(* Properties.                                                             *)
(***************************************************************************)
\* a pass between its successful claim and its release or abort
Holding(p) == pc[p] \in {"claimed", "ready", "agentReturned", "catch"}
HoldersOf(t) == {p \in Passes : Holding(p) /\ pthread[p] = t}
ActiveOn(t) == {p \in Passes : pc[p] # "idle" /\ pthread[p] = t}

IsSubSeq(a, b) ==
    \E f \in [DOMAIN a -> DOMAIN b] :
        /\ \A i \in DOMAIN a : b[f[i]] = a[i]
        /\ \A i, j \in DOMAIN a : i < j => f[i] < f[j]

\* C1: for one conversation at most one pass at a time holds a non-empty claim
\* it has neither released nor aborted (so a claim made while another pass
\* holds one comes back empty).
C1_SingleActiveClaim ==
    \A t \in Threads : Cardinality(HoldersOf(t)) <= 1

\* C2: when a pass releases, every message of the conversation outside its own
\* claim that is pending or was taken meanwhile is still pending after the
\* release and is in the list markProcessedAndCheckPending returns; and a
\* successful claim returns every pending message.
C2_NoLostWrites ==
    [][\A p \in Passes :
         /\ (pc[p] = "agentReturned" /\ pc'[p] = "released") =>
               \A m \in MsgsOf(pthread[p]) \ Range(claimed[p]) :
                   status[m] \in {PENDING, PROCESSING} =>
                       status'[m] = PENDING /\ m \in Range(newPending'[p])
         /\ (pc[p] = "start" /\ pc'[p] = "claimed") =>
               WithStatus(pthread[p], PENDING) \subseteq Range(claimed'[p])
      ]_vars

\* C3: a pass whose agent invocation failed does not go on to mark its claimed
\* messages processed (it takes the abort path and answers 500).
C3_AgentFailureAborts ==
    [][\A p \in Passes :
         (pc[p] = "agentReturned" /\ ~agentOk[p]) => pc'[p] # "released"]_vars

\* C4: after an abort has reset a claim to pending, the next claim on the
\* conversation made with no other pass active returns every message of the
\* aborted claim, in the same order.
C4_AbortedClaimReturned ==
    [][\A p \in Passes :
         (Claim(p) /\ lastAborted[pthread[p]] # << >> /\ ActiveOn(pthread[p]) = {p}) =>
             /\ pc'[p] = "claimed"
             /\ IsSubSeq(lastAborted[pthread[p]], claimed'[p])]_vars

\* C5: when a pass whose release found new pending messages ends (its
\* follow-up scheduleProcessing call not failed by the queue, no webhook
\* call for the conversation still to come, the messages it found still
\* pending), a dispatch job of the conversation is waiting in the queue.
C5_FollowUpJobLive ==
    [][\A p \in Passes :
         (newPending[p] # << >> /\ inflight[pthread[p]] = 0 /\ Finish(p, FALSE)
              /\ \A m \in Range(newPending[p]) : status[m] = PENDING) =>
             \E i \in DOMAIN queue' :
                 queue'[i].threadId = pthread[p] /\ queue'[i].st = "waiting"]_vars

\* C6: the agent never runs to completion on a message that an earlier
\* completed agent invocation already covered.
C6_AgentAtMostOnce ==
    [][\A p \in Passes :
         (pc[p] = "ready" /\ pc'[p] = "agentReturned" /\ agentOk'[p]) =>
             Range(claimed[p]) \cap agentDone = {}]_vars

\* C7: messages left in processing by a pass that has ended can be claimed
\* again: a claim made while no other pass is active on the conversation and
\* some message of it is in processing succeeds and returns those messages.
C7_OrphansReclaimable ==
    [][\A p \in Passes :
         (Claim(p) /\ ActiveOn(pthread[p]) = {p}
                   /\ WithStatus(pthread[p], PROCESSING) # {}) =>
             /\ pc'[p] = "claimed"
             /\ WithStatus(pthread[p], PROCESSING) \subseteq Range(claimed'[p])]_vars

\* C8: storeMessage of an already stored message id leaves a processing
\* message processing and a processed message processed.
C8_RedeliveryKeepsStatus ==
    [][\A m \in Msgs :
         ((\E now \in 0..MaxClock : StoreMessage(m[1], m[2], now))
              /\ status[m] \in {PROCESSING, PROCESSED}) =>
             status'[m] = status[m]]_vars

\* no dispatch job of the conversation has been handed to a pass
NotFired(t) ==
    /\ RunningJobsOf(t) = {}
    /\ \A p \in Passes : ~(pc[p] # "idle" /\ pthread[p] = t /\ pjob[p])

ScheduleCall(t) ==
    \/ WebhookSchedule(t, FALSE)
    \/ \E p \in Passes : pthread[p] = t /\ newPending[p] # << >> /\ Finish(p, FALSE)

TimeBucket(now) == now \div MAX_DELAY_SECONDS

\* C10: the job name is a function of the conversation key and the time
\* bucket of the call: same key and same bucket give the same name, same key
\* and different buckets give different names.
C10_NameByKeyAndBucket ==
    (probe.op = "taskName" /\ probe.names # << >> /\ probe.keyA = probe.keyB) =>
        /\ TimeBucket(probe.nowA) = TimeBucket(probe.nowB) =>
               probe.names[1] = probe.names[2]
        /\ TimeBucket(probe.nowA) # TimeBucket(probe.nowB) =>
               probe.names[1] # probe.names[2]

\* C13: a claim that comes back empty ends the pass at once with the 200
\* answer (its task leaves the queue): no message status changes, no agent
\* runs, nothing is released, reset or scheduled.
C13_EmptyClaimExits ==
    [][\A p \in Passes :
         (Claim(p) /\ ClaimResult(pthread[p]) = << >>) =>
             /\ pc'[p] = "idle"
             /\ status' = status /\ createdAt' = createdAt
             /\ agentDone' = agentDone
             /\ queue' = TaskSucceeded(queue, p)
             /\ \A i \in DOMAIN queue' : \E j \in DOMAIN queue : queue'[i] = queue[j]
             /\ pjob[p] => ~QueueHas(queue', TaskName(pthread[p], clock))]_vars

\* a duplicate delivery of the task found pass 1's claim outstanding, claimed
\* nothing and answered 200: pass 1 still holds its claim, its task is gone
C13_Witness ==
    /\ pc[1] = "claimed" /\ ~pjob[1]
    /\ pc[2] = "idle"
    /\ JobsOf(pthread[1]) = {}
    /\ agentDone = {}
    /\ \A m \in Msgs : status[m] # PROCESSED

\* C14: when the follow-up scheduleProcessing call of a pass throws, no
\* message status changes (what the release marked processed stays processed)
\* and the pass still answers 200 (its task leaves the queue).
C14_FollowUpFailureKeepsRelease ==
    [][\A p \in Passes :
         (newPending[p] # << >> /\ Finish(p, TRUE)) =>
             /\ ScheduleOutcome(CreateTaskCode(queue, TaskName(pthread[p], clock), TRUE)) = "thrown"
             /\ status' = status
             /\ pc'[p] = "idle"
             /\ pjob[p] => ~QueueHas(queue', TaskName(pthread[p], clock))]_vars

\* a pass has released m1, found m2 pending and ended; no job is queued
C14_Witness ==
    /\ status[<<T1, 1>>] = PROCESSED /\ status[<<T1, 2>>] = PENDING
    /\ \A p \in Passes : pc[p] = "idle"
    /\ inflight[T1] = 0
    /\ queue = << >>

\* C15: a claim that succeeds returns exactly the messages of the
\* conversation that were pending, oldest createdAt first; after it every one
\* of them is processing and none of the conversation is pending.
C15_ClaimTakesAllPending ==
    [][\A p \in Passes :
         (Claim(p) /\ pc'[p] = "claimed") =>
             /\ Range(claimed'[p]) = WithStatus(pthread[p], PENDING)
             /\ Len(claimed'[p]) = Cardinality(WithStatus(pthread[p], PENDING))
             /\ \A i, j \in DOMAIN claimed'[p] :
                    i < j => createdAt[claimed'[p][i]] <= createdAt[claimed'[p][j]]
             /\ \A m \in Range(claimed'[p]) : status'[m] = PROCESSING
             /\ \A m \in MsgsOf(pthread[p]) : status'[m] # PENDING]_vars

\* a pass holds a claim of two messages with different createdAt, the one
\* with the larger document id being the older
C15_Witness ==
    \E p \in Passes :
        /\ pc[p] = "claimed"
        /\ claimed[p] = << <<T1, 2>>, <<T1, 1>> >>
        /\ createdAt[<<T1, 2>>] < createdAt[<<T1, 1>>]

\* the last call the handler has logged
LastLogged == probe.log[Len(probe.log)]

\* C11: scheduleProcessing returns normally when createTask succeeds or is
\* rejected with ALREADY_EXISTS, throws to its caller on any other createTask
\* error, and in no case changes a stored message.
C11_ScheduleErrors ==
    [][\A fault \in BOOLEAN :
         HookSchedule(fault) =>
             /\ CreateTaskCode(queue, TaskName(T1, clock), fault) \in {"OK", "ALREADY_EXISTS"}
                    => LastLogged'.ok
             /\ CreateTaskCode(queue, TaskName(T1, clock), fault) = "ALREADY_EXISTS"
                    => queue' = queue
             /\ CreateTaskCode(queue, TaskName(T1, clock), fault)
                    \notin {"OK", "ALREADY_EXISTS"} => ~LastLogged'.ok /\ queue' = queue
             /\ status' = status /\ createdAt' = createdAt]_vars

\* one request whose first scheduleProcessing call was thrown back by the
\* queue and whose second returned with the job of an earlier call in place
\* (ALREADY_EXISTS)
C11_Witness ==
    /\ probe.op = "webhook"
    /\ Len(probe.log) = 4
    /\ probe.log[2].op = "schedule" /\ ~probe.log[2].ok
    /\ probe.log[4].op = "schedule" /\ probe.log[4].ok
    /\ Len(queue) = 1 /\ queue[1].st = "waiting"
    /\ probe.at = "loop" /\ status[<<T1, 1>>] = PENDING /\ status[<<T1, 2>>] = PENDING

\* the request is a POST with a body that the signature check lets through
\* and whose payload is an Instagram one
PassedValidation(r) ==
    /\ r.method = "POST" /\ r.hasBody
    /\ SignatureChecked(r.secret, r.emulator) => ValidateSignature(r.rawBody, r.sig, r.secret)
    /\ r.object = "instagram"

\* C18: a POST that passed the signature check and carries an Instagram
\* payload is answered 200, whatever storeMessage and scheduleProcessing did
\* for its messages; the handler never ends it with another answer.
C18_AlwaysOk ==
    (probe.op = "webhook" /\ PassedValidation(probe.req)) =>
        /\ probe.resp \in {0, 200}
        /\ probe.at = "done" => probe.resp = 200

\* answered 200 after a storeMessage that failed and a scheduleProcessing
\* that threw
C18_Witness ==
    /\ probe.op = "webhook" /\ PassedValidation(probe.req)
    /\ probe.at = "done" /\ probe.resp = 200
    /\ \E k \in DOMAIN probe.log : probe.log[k].op = "store" /\ ~probe.log[k].ok
    /\ \E k \in DOMAIN probe.log : probe.log[k].op = "schedule" /\ ~probe.log[k].ok

\* C19: every scheduleProcessing call of the handler directly follows a
\* storeMessage call for the same message that returned, and when the call is
\* made that message is stored with status pending.
C19_StoreBeforeSchedule ==
    probe.op = "webhook" =>
        /\ \A k \in DOMAIN probe.log :
              probe.log[k].op = "schedule" =>
                  /\ k > 1
                  /\ probe.log[k - 1] = [op |-> "store", id |-> probe.log[k].id, ok |-> TRUE]
        /\ probe.at = "schedule" =>
              /\ status[<<T1, probe.req.entries[probe.i].id>>] = PENDING
              /\ LastLogged = [op |-> "store", id |-> probe.req.entries[probe.i].id, ok |-> TRUE]

\* a request with one message whose store failed (no schedule call for it)
\* and one that was stored and then scheduled
C19_Witness ==
    /\ probe.op = "webhook"
    /\ Len(probe.log) = 3
    /\ probe.log[1].op = "store" /\ ~probe.log[1].ok
    /\ probe.log[2].op = "store" /\ probe.log[2].ok
    /\ probe.log[3].op = "schedule" /\ probe.log[3].id = probe.log[2].id

\* C20: outside emulator mode a POST whose signature header is missing or is
\* not the HMAC of the raw body under the configured secret, or that arrives
\* when no secret is configured, is answered 401 with nothing stored or
\* scheduled.
C20_RejectsUnsigned ==
    (/\ probe.op = "webhook" /\ probe.at # "recv"
     /\ probe.req.method = "POST" /\ probe.req.hasBody /\ ~probe.req.emulator
     /\ \/ probe.req.sig = NoSignature
        \/ probe.req.sig # Hmac(probe.req.secret, probe.req.rawBody)
        \/ probe.req.secret = "") =>
        /\ probe.resp = 401
        /\ probe.log = << >>

\* both messages of the conversation are stored, not more than 3 seconds
\* apart
StoredWithin3 ==
    /\ status[<<T1, 1>>] # ABSENT /\ status[<<T1, 2>>] # ABSENT
    /\ createdAt[<<T1, 1>>] - createdAt[<<T1, 2>>] \in -3..3

\* the two messages, older first
InArrivalOrder == SortByCreatedAt(MsgsOf(T1))

Assembles(p) == probe.op = "transcript" /\ BuildInput(p, TRUE)

\* C16: in the transcript a pass assembles, stored history followed by the
\* claimed messages, createdAt never decreases from one message to the next.
C16_TranscriptOrdered ==
    [][\A p \in Passes :
         Assembles(p) =>
             \A i, j \in DOMAIN Transcript(p, probe.limit) :
                 i < j => createdAt[Transcript(p, probe.limit)[i]]
                              <= createdAt[Transcript(p, probe.limit)[j]]]_vars

\* C17: the transcript a pass assembles holds at most the configured maximum
\* number of messages, and the history in it is the newest part of the
\* processed messages (the oldest are the ones left out).
C17_TranscriptBounded ==
    [][\A p \in Passes :
         Assembles(p) =>
             /\ Len(Transcript(p, probe.limit)) <= probe.limit
             /\ \A m \in WithStatus(pthread[p], PROCESSED) :
                    m \notin Range(GetConversationHistory(pthread[p], probe.limit)) =>
                        \A h \in Range(GetConversationHistory(pthread[p], probe.limit)) :
                            Before(m, h)]_vars


\* C21: a GET is answered 200 with the challenge as body only when hub.mode
\* is "subscribe" and the supplied verify token equals the configured token;
\* every GET whose token differs is answered 403 with a body that is the
\* fixed text, not the challenge of the request.
C21_HandshakeNeedsToken ==
    (probe.op = "webhook" /\ probe.req.method = "GET" /\ probe.at = "done") =>
        /\ probe.resp \in {200, 403}
        /\ probe.resp = 200 =>
               /\ probe.body = probe.req.challenge
               /\ probe.req.token = INSTAGRAM_VERIFY_TOKEN
               /\ probe.req.mode = "subscribe"
        /\ probe.req.token # INSTAGRAM_VERIFY_TOKEN =>
               probe.resp = 403 /\ probe.body = "Forbidden"

\* a subscribe request with a wrong token has been refused, and one with the
\* configured token would be answered with its challenge
C21_Witness ==
    /\ probe.op = "webhook" /\ probe.req.method = "GET" /\ probe.at = "done"
    /\ probe.req.mode = "subscribe" /\ probe.req.token = "bad"
    /\ probe.req.challenge = "abc123"
    /\ probe.resp = 403 /\ probe.body # probe.req.challenge
    /\ ResponseBody([probe.req EXCEPT !.token = INSTAGRAM_VERIFY_TOKEN]) = "abc123"


\* the calls of one kind the loop body has made
Calls(kind) == {k \in DOMAIN probe.log : probe.log[k].op = kind}

\* the event is one the handler is to drop before anything else
Dropped(ev) ==
    \/ ev.is_echo \/ ev.reaction \/ ev.read \/ ev.postback \/ ~ev.hasMessage
    \/ (INSTAGRAM_PAGE_ID # << >> /\ ev.sender = INSTAGRAM_PAGE_ID)

\* C22: an echo, reaction, read receipt, postback, event without message or
\* event sent by the configured page id causes no call at all (no store, no
\* schedule, no reset); every other event passes the filter, and with no
\* test-mode filter and no reset keyword configured storeMessage is called
\* for it.
C22_FilteredNeverStored ==
    probe.op = "event" =>
        /\ Dropped(probe.ev) =>
              /\ probe.log = << >>
              /\ probe.at \in {"filter", "end", "done"}
        /\ (~Dropped(probe.ev) /\ probe.at = "done"
               /\ TEST_MODE_USERNAME = "" /\ TEST_MODE_SENDER_ID = << >>
               /\ RESET_KEYWORD = << >>) =>
              Calls("store") # {}

\* a message (no echo) whose sender is the configured page has been answered
\* with nothing stored, and a message of sender 17 with a referral would pass
C22_Witness ==
    /\ probe.op = "event" /\ probe.at = "done" /\ probe.resp = 200
    /\ probe.ev.hasMessage /\ ~probe.ev.is_echo /\ ~probe.ev.reaction
    /\ ~probe.ev.read /\ ~probe.ev.postback
    /\ probe.ev.sender = T2 /\ INSTAGRAM_PAGE_ID = T2
    /\ probe.log = << >>
    /\ status[<<T2, 1>>] = ABSENT /\ queue = << >>
    /\ ShouldProcessEvent([probe.ev EXCEPT !.sender = T1, !.referral = TRUE])

\* a test-mode filter is configured and the sender of the event is not the
\* allowed one
OtherSender ==
    \/ probe.cfg.variant = "username" /\ TEST_MODE_USERNAME # ""
          /\ Username(probe.ev.sender) # TEST_MODE_USERNAME
    \/ probe.cfg.variant = "senderId" /\ TEST_MODE_SENDER_ID # << >>
          /\ probe.ev.sender # TEST_MODE_SENDER_ID

\* C23: with a test-mode filter configured, an event of another sender, or
\* one whose sender's profile could not be fetched, causes no storeMessage,
\* scheduleProcessing or deleteConversationData call; with no filter
\* configured every event that passed shouldProcessEvent goes on to the
\* reset check or the store.
C23_TestModeFilter ==
    probe.op = "event" =>
        /\ OtherSender =>
              Calls("store") \cup Calls("schedule") \cup Calls("delete") = {}
        /\ (\E k \in Calls("profile") : ~probe.log[k].ok) =>
              Calls("store") \cup Calls("schedule") \cup Calls("delete") = {}
        /\ (TEST_MODE_USERNAME = "" /\ TEST_MODE_SENDER_ID = << >>
               /\ ~Dropped(probe.ev) /\ probe.at = "done") =>
              Calls("store") \cup Calls("delete") # {}

\* the allowed user's own message has been dropped because getUserProfile
\* failed: nothing stored, nothing scheduled
C23_Witness ==
    /\ probe.op = "event" /\ probe.at = "done"
    /\ probe.cfg.variant = "username" /\ TEST_MODE_USERNAME = "alice"
    /\ probe.ev.sender = T1 /\ ~Dropped(probe.ev)
    /\ probe.log = <<[op |-> "profile", ok |-> FALSE]>>
    /\ status[<<T1, 1>>] = ABSENT /\ queue = << >>

\* C24: with a reset keyword configured, a message that survived the filters
\* and whose text is exactly the keyword makes the handler call
\* deleteConversationData and is neither stored nor scheduled, whether or not
\* the wipe succeeded; a message whose text is not the keyword is not treated
\* as a reset and is handed to storeMessage.
C24_ResetExactMatch ==
    (probe.op = "event" /\ probe.cfg.variant = "senderId" /\ probe.at = "done"
        /\ RESET_KEYWORD # << >>
        /\ ~Dropped(probe.ev) /\ IsAllowedSender(probe.ev.sender)) =>
        IF IsExactKeyword(probe.ev.text)
        THEN Calls("delete") # {} /\ Calls("store") \cup Calls("schedule") = {}
        ELSE Calls("delete") = {} /\ Calls("store") # {}


\* the request is a POST with a bearer token that is signed, issued for the
\* URL of the function and carries the account of the project's task queue
AuthenticPost(r) ==
    /\ r.method = "POST" /\ r.header = "bearer"
    /\ r.token.signed /\ r.token.aud = PROCESS_MESSAGE_URL
    /\ r.token.email = CLOUD_TASKS_SERVICE_ACCOUNT("proj")

\* C25: outside emulator mode a request that is not an authenticated POST
\* changes nothing (no claim, no agent run, no store or queue write) and is
\* answered 405 when it is not a POST, 401 otherwise.
C25_UnauthenticatedRejected ==
    [][(probe.op = "auth" /\ ~probe.req.emulator /\ ~AuthenticPost(probe.req)) =>
          /\ status' = status /\ createdAt' = createdAt /\ queue' = queue
          /\ pc' = pc /\ claimed' = claimed /\ agentDone' = agentDone
          /\ probe'.at = "done" =>
                probe'.resp = IF probe.req.method # "POST" THEN 405 ELSE 401]_vars


\* C26: check_last_notification answers canNotify = false exactly when a
\* last notification is recorded and less than seven days have passed since;
\* with no record, or seven days or more passed, it answers true.
C26_CanNotifyAfterSevenDays ==
    (probe.op = "notify" /\ probe.answer.asked) =>
        (~probe.answer.canNotify <=>
            (probe.answer.last # NoNotification
                /\ probe.answer.now - probe.answer.last < SEVEN_DAYS_MS))

\* C27: escalate_to_manager sends nothing while the recorded last
\* notification is younger than the cooldown: any two notifications sent to
\* the manager, each recorded, are at least the cooldown apart.
C27_EscalationRespectsCooldown ==
    probe.op = "notify" =>
        \A i, j \in DOMAIN probe.sentAt :
            (i < j /\ probe.last = probe.sentAt[j]) =>
                probe.sentAt[j] - probe.sentAt[i] >= SEVEN_DAYS_MS


\* an outcome after which fetchWithRetry may call fetch again
Retryable(o) == o.kind = "error" \/ o.status = 429 \/ o.status >= 500

\* C28: fetchWithRetry makes at most MAX_RETRIES fetch calls and then ends
\* (returns or throws), whatever the calls come to; every call but the last
\* came to a 429, a 5xx or a network error.
C28_AtMostThreeCalls ==
    /\ [](probe.op = "fetch" =>
             /\ Len(probe.log) <= MAX_RETRIES
             /\ \A k \in 1..(Len(probe.log) - 1) : Retryable(probe.log[k]))
    /\ <>(probe.op = "fetch" => probe.at \in {"returned", "thrown"})

\* three calls were made, a 429, a 503 and a network error, and the call
\* has ended by throwing
C28_Witness ==
    /\ probe.op = "fetch" /\ probe.at = "thrown"
    /\ Len(probe.log) = MAX_RETRIES
    /\ probe.log[1].status = 429 /\ probe.log[2].status = 503
    /\ probe.log[3].kind = "error"
    /\ probe.slept = <<1000, 2000>>


\* the messages outside conversation t keep status and createdAt
OthersKept(t) ==
    \A m \in Msgs \ MsgsOf(t) : status'[m] = status[m] /\ createdAt'[m] = createdAt[m]

\* C29: storeMessage, the claim, the release and the abort of a conversation
\* leave every message of every other conversation as it was, and the claim
\* of a conversation with pending messages and none in processing succeeds
\* whatever the other conversations' messages and passes are at.
C29_ConversationsIndependent ==
    [][/\ \A t \in Threads : \A id \in MsgIds[t] :
             (\E now \in 0..MaxClock : StoreMessage(t, id, now)) =>
                 /\ OthersKept(t)
                 /\ \A m \in MsgsOf(t) \ {<<t, id>>} : status'[m] = status[m]
       /\ \A p \in Passes :
             /\ (Claim(p) \/ Release(p, TRUE) \/ Catch(p, TRUE)) => OthersKept(pthread[p])
             /\ (Claim(p) /\ WithStatus(pthread[p], PENDING) # {}
                     /\ WithStatus(pthread[p], PROCESSING) = {}) =>
                    /\ pc'[p] = "claimed"
                    /\ Range(claimed'[p]) = WithStatus(pthread[p], PENDING)
      ]_vars

\* conversation 17 is held by the claim of one pass while another pass has
\* claimed the message of conversation 18
C29_Witness ==
    \E p, q \in Passes :
        /\ pc[p] \in {"claimed", "ready", "agentReturned"} /\ pthread[p] = T1
        /\ claimed[p] # << >>
        /\ pc[q] = "claimed" /\ pthread[q] = T2
        /\ claimed[q] = << <<T2, 1>> >>
        /\ status[<<T2, 1>>] = PROCESSING


\* the messages whose status the step changes
Changed == {m \in Msgs : status'[m] # status[m]}

\* C30: no message is ever given the status failed; a claim changes messages
\* from pending to processing only, a release from processing to processed
\* only, an abort from processing to pending only, and release and abort
\* change none but the messages their pass claimed.
C30_StatusTransitions ==
    [][/\ \A m \in Msgs : status'[m] \in (MessageStatus \ {FAILED}) \cup {ABSENT}
       /\ \A p \in Passes :
             /\ Claim(p) =>
                   \A m \in Changed : status[m] = PENDING /\ status'[m] = PROCESSING
             /\ Release(p, TRUE) =>
                   \A m \in Changed :
                       /\ m \in Range(claimed[p])
                       /\ status[m] = PROCESSING /\ status'[m] = PROCESSED
             /\ Catch(p, TRUE) =>
                   \A m \in Changed :
                       /\ m \in Range(claimed[p])
                       /\ status[m] = PROCESSING /\ status'[m] = PENDING
      ]_vars


\* the outcome of the last fetch call made
LastOutcome == probe.log[Len(probe.log)]

\* C35: fetchWithRetry returns the response whenever its last attempt came
\* to a response, a 429 or 5xx of the final attempt included; a first
\* response below 500 other than 429 is returned after that one call; it
\* throws only after a network error in the final attempt.
C35_ReturnsLastResponse ==
    (probe.op = "fetch" /\ probe.log # << >>) =>
        /\ probe.at = "returned" => LastOutcome.kind = "response"
        /\ (Len(probe.log) = MAX_RETRIES /\ LastOutcome.kind = "response") =>
               probe.at = "returned"
        /\ (probe.log[1].kind = "response" /\ probe.log[1].status < 500
               /\ probe.log[1].status # 429) =>
               probe.at = "returned" /\ Len(probe.log) = 1
        /\ probe.at = "thrown" =>
               Len(probe.log) = MAX_RETRIES /\ LastOutcome.kind = "error"

\* two server errors and then a 503 in the final attempt: the 503 response
\* has been returned
C35_Witness ==
    /\ probe.op = "fetch" /\ probe.at = "returned"
    /\ Len(probe.log) = MAX_RETRIES
    /\ probe.log[1].status = 500 /\ probe.log[2].kind = "error"
    /\ probe.log[3].kind = "response" /\ probe.log[3].status = 503

\* the ids of the calls of one kind in the handler's log, in order
LoggedIds(kind) ==
    LET sel == SelectSeq(probe.log, LAMBDA c : c.op = kind)
    IN  [k \in DOMAIN sel |-> sel[k].id]

\* the ids of the message events of the payload, in order
PayloadIds ==
    LET sel == SelectSeq(probe.req.entries, LAMBDA e : e.kind = "message")
    IN  [k \in DOMAIN sel |-> sel[k].id]

\* C36: when the handler has answered a validated payload, storeMessage has
\* been called for every message of it, in order, whatever the calls for
\* the messages before came to, and scheduleProcessing for every message
\* whose store returned.
C36_FailureDoesNotStopLoop ==
    (probe.op = "webhook" /\ PassedValidation(probe.req) /\ probe.at = "done") =>
        /\ LoggedIds("store") = PayloadIds
        /\ \A k \in DOMAIN probe.log :
              (probe.log[k].op = "store" /\ probe.log[k].ok) =>
                  /\ k < Len(probe.log)
                  /\ probe.log[k + 1].op = "schedule"
                  /\ probe.log[k + 1].id = probe.log[k].id

\* the schedule call of the first message threw (its store had returned),
\* the second message was stored and scheduled all the same
C36_Witness ==
    /\ probe.op = "webhook" /\ PassedValidation(probe.req) /\ probe.at = "done"
    /\ Len(probe.log) = 4
    /\ probe.log[1] = [op |-> "store", id |-> 1, ok |-> TRUE]
    /\ probe.log[2] = [op |-> "schedule", id |-> 1, ok |-> FALSE]
    /\ probe.log[3] = [op |-> "store", id |-> 2, ok |-> TRUE]
    /\ probe.log[4] = [op |-> "schedule", id |-> 2, ok |-> TRUE]
    /\ status[<<T1, 2>>] = PENDING


\* C37: two different conversation keys give two different job names, so
\* that createTask for one conversation is not answered ALREADY_EXISTS
\* because of a job of the other.
C37_DistinctKeysDistinctNames ==
    (probe.op = "taskName" /\ probe.names # << >> /\ probe.keyA # probe.keyB) =>
        /\ probe.names[1] # probe.names[2]
        /\ CreateTaskCode(<<[name |-> probe.names[1], threadId |-> probe.keyA,
                             st |-> "waiting"]>>, probe.names[2], FALSE) = "OK"


\* C33: a call of escalate_to_manager whose send failed leaves
\* lastNotification as it was and returns the failure; one whose send
\* succeeded returns success, with lastNotification set to the time of the
\* call when the write went through and left as it was when the write failed.
C33_StampOnlyAfterSend ==
    [][\A sendOk, writeOk \in BOOLEAN :
          (probe.op = "notify" /\ NEscalate(sendOk, writeOk)) =>
              /\ probe'.result.success = sendOk
              /\ ~sendOk => probe'.last = probe.last
              /\ (sendOk /\ writeOk) => probe'.last = probe.now
              /\ (sendOk /\ ~writeOk) => probe'.last = probe.last]_vars

\* a notification went out and the call returned success although its
\* write of lastNotification failed: an older record is still in place
C33_Witness ==
    /\ probe.op = "notify"
    /\ Len(probe.sentAt) = 2
    /\ probe.result.success
    /\ probe.last = probe.sentAt[1] /\ probe.sentAt[2] > probe.sentAt[1]


\* C32: the delay of a scheduleProcessing call is a whole number of seconds
\* from 5 to 15, and the scheduleTime of its job is no less than 5 and no
\* more than 15 seconds after the time of the call.
C32_DelayWithinWindow ==
    (probe.op = "delay" /\ probe.seconds # NotScheduled) =>
        /\ probe.delay \in MIN_DELAY_SECONDS..MAX_DELAY_SECONDS
        /\ probe.seconds * 1000 - probe.nowMs >= MIN_DELAY_SECONDS * 1000
        /\ probe.seconds * 1000 - probe.nowMs <= MAX_DELAY_SECONDS * 1000


\* the message list the agent is given by pass p: the history query with a
\* limit no conversation of the model reaches, then the claimed messages
ModelInput(p) == Transcript(p, Cardinality(Msgs))

\* C31: in the message list a pass hands to the agent every claimed message
\* stands exactly once, behind every message of the stored history, and the
\* last entry is the last message of the claim (the one with the largest
\* createdAt when the claim was made).
C31_ClaimedOnceAtEnd ==
    [][\A p \in Passes :
         BuildInput(p, TRUE) =>
             /\ \A m \in Range(claimed[p]) :
                    Cardinality({i \in DOMAIN ModelInput(p) : ModelInput(p)[i] = m}) = 1
             /\ \A i \in DOMAIN ModelInput(p) :
                    ModelInput(p)[i] \in Range(claimed[p]) =>
                        i > Len(ModelInput(p)) - Len(claimed[p])
             /\ ModelInput(p)[Len(ModelInput(p))] = claimed[p][Len(claimed[p])]]_vars

\* C34: however the getAllTools calls of one process interleave, loadAllTools
\* runs at most once and every caller gets the same promise, hence the same
\* tool list; however often initSpondMcp is called, the MCP client is
\* registered at most once.
C34_LoadedOnce ==
    probe.op = "tools" =>
        /\ probe.loads <= 1
        /\ probe.registered <= 1
        /\ \A c, d \in ToolCallers :
               (probe.pc[c] # "idle" /\ probe.pc[d] # "idle") =>
                   probe.got[c] = probe.got[d]

C34_Witness ==
    /\ probe.op = "tools"
    /\ probe.pc["c1"] = "done"
    /\ probe.pc["c2"] = "awaiting"
    /\ probe.pc["c3"] = "awaiting"
    /\ probe.got["c1"].kind = "tools"
    /\ probe.calls = MaxToolCalls
    /\ probe.inits = MaxInitCalls
    /\ probe.loads = 1
    /\ probe.registered = 1

=============================================================================
